---- MODULE Spec2Model ----
(***************************************************************************)
(* Model of vllm/power_management.py: the GPUPowerManager class, the      *)
(* module-global _power_manager and the module-level facade functions.    *)
(*                                                                         *)
(* Spec: sequential callers, every method one atomic action.  The NVML    *)
(* library is the environment: every NVML call the code makes is appended *)
(* to `calls`, and whether a call raises is an input of the action (the   *)
(* sets hf, rf below).                                                    *)
(* ClockSpec: initialize_power_manager over a range of reduction          *)
(* percentages and maximum clocks.                                        *)
(* ConcSpec: the methods statement by statement, run by several threads.  *)
(***************************************************************************)
EXTENDS Integers, Sequences, FiniteSets, TLC

\* ------------------------------------------------------------------ bounds
NumDevices == 2        \* torch.cuda.device_count(): device_ids = 0..NumDevices-1
MaxManagers == 2       \* initialize_power_manager calls explored per run
MaxRecords == 11       \* record_tbt calls of the scripted latency stream
MaxFreeRecords == 4    \* record_tbt calls of the workload with free samples
NumLatThreads == 2     \* threads of the latency-reporting path calling record_tbt
MaxCtlCalls == 3       \* phase calls the control-loop thread makes in a threaded run

\* ------------------------------------------------------- program constants
WindowCapacity == 10                  \* "Keep only the last 10 values"
MinSamples == 3                       \* len(self.tbt_values) >= 3
DEFAULT_DECODE_CLOCK_REDUCTION == 5   \* percent
DefaultThreshold == 100               \* tbt_threshold_ms: float = 100.0
MaxSmClock == 2000     \* nvmlDeviceGetMaxClockInfo of the devices (MHz)

\* latency samples below, at and above the default threshold
FreeSamples == {50, 100, 150}
\* a latency stream of pairwise distinct samples; its first six are the two
\* record_tbt bursts of scenarios B and C
Stream == <<50, 60, 70, 150, 160, 170, 40, 30, 20, 10, 80, 90, 110>>
ScenarioC == SubSeq(Stream, 1, 6)
\* a window full of fast tokens (10 ms) followed by as many slow ones (110 ms,
\* just above the default threshold)
SlowBurst == [i \in 1 .. 2 * WindowCapacity |->
                 IF i <= WindowCapacity THEN 10 ELSE 110]

device_ids == 0 .. (NumDevices - 1)
ManagerIds == 1 .. MaxManagers

\* the threads of a threaded run: the latency reporters and the control loop
LatThreads == 1 .. NumLatThreads
CtlThread == NumLatThreads + 1
Threads == 1 .. CtlThread

VARIABLES
    NVML_AVAILABLE,   \* module constant set by the guarded import
    mgrs,             \* the GPUPowerManager objects created so far
    power_manager,    \* the module global _power_manager: 0 is None, else an id
    tbt_values,       \* tbt_values of the manager _power_manager points at
    recorded,         \* history: every sample that manager has stored, in order
    nextId,           \* id of the next manager to be constructed
    proc,             \* "running", "exiting" (interpreter shutdown), "gone"
    calls,            \* the NVML calls issued by the most recent operation
    last,             \* what the most recent operation was and how it ended
    initLeft,         \* workload: initialize_power_manager calls still to come
    recLeft,          \* workload: record_tbt calls with a free sample still to come
    script,           \* workload: samples the caller will report next, in order
    threads,          \* per thread: where it is inside the method it is running
    tbt_lock,         \* self.tbt_lock: the thread that holds it, 0 when free
    clock_log,        \* history: per device, the kind of its latest clock action
    ctlLeft           \* workload: phase calls the control-loop thread still makes

\* the variables of the threaded runs; the sequential runs leave them alone
concVars == <<threads, tbt_lock, clock_log, ctlLeft>>

vars == <<NVML_AVAILABLE, mgrs, power_manager, tbt_values, recorded, nextId,
          proc, calls, last, initLeft, recLeft, script, concVars>>

\* --------------------------------------------------------------- helpers
RECURSIVE Sum(_)
Sum(s) == IF s = <<>> THEN 0 ELSE Head(s) + Sum(Tail(s))

\* the last n elements of s (all of s when it is shorter)
LastN(s, n) == IF Len(s) <= n THEN s ELSE SubSeq(s, Len(s) - n + 1, Len(s))

Call(fn, m, d, lo, hi, ok) ==
    [fn |-> fn, mgr |-> m, dev |-> d, lo |-> lo, hi |-> hi, ok |-> ok]

NoManager == [life |-> "none", enabled |-> FALSE, monitor_tbt |-> FALSE,
              in_decode_phase |-> FALSE, held |-> FALSE, target |-> 0,
              threshold |-> 0, dels |-> 0, built |-> FALSE,
              max_sm_clock |-> 0, percent |-> 0]

\* op: the operation; mgr: the manager it ran on (0: none); raised: an exception
\* left it; rollback: record_tbt took the branch of line 187; was: the phase flag
\* of mgr at entry; old, oldheld, oldwas: the manager initialize replaced, whether
\* a caller still held it and its phase flag; tbt: the sample; again: the
\* operation before this one was the same operation on the same manager; fin:
\* the manager whose __del__ ran during the operation (0: none); streak: how
\* many record_tbt calls in a row, this one included, stored a sample above the
\* threshold while the phase was Decode at their entry
NoOp == [op |-> "none", mgr |-> 0, raised |-> FALSE, rollback |-> FALSE,
         was |-> FALSE, old |-> 0, oldheld |-> FALSE, oldwas |-> FALSE,
         tbt |-> 0, again |-> FALSE, fin |-> 0, streak |-> 0]

\* a thread that is inside no method.  pc: the statement it is about to run;
\* dev: the index of its device loop; tbt: the sample it was given
Idle == [pc |-> "idle", dev |-> 0, tbt |-> 0]

\* no thread is running: the state of the thread variables in sequential runs
NoThreads ==
    /\ threads = [t \in Threads |-> Idle]
    /\ tbt_lock = 0
    /\ clock_log = [d \in device_ids |-> "none"]
    /\ ctlLeft = 0

Op(name, m) == [NoOp EXCEPT !.op = name, !.mgr = m, !.again = (last.op = name /\ last.mgr = m),
                            !.was = IF m = 0 THEN FALSE ELSE mgrs[m].in_decode_phase]

\* mutant: the percentage is added, not subtracted
TargetClockAddsPercent(max_sm_clock, percent) ==
    (max_sm_clock * (100 + percent)) \div 100

\* lines 91-93: int(max_sm_clock * (100 - percent) / 100).  The product is an
\* exact integer, the float quotient of an integer below 2^53 by 100 is never
\* rounded across an integer, and int() truncates, which for a non-negative
\* quotient is the floor that \div computes.
TargetClock(max_sm_clock, percent) == (max_sm_clock * (100 - percent)) \div 100

\* --------------------------------------------------------------- workload
\* the samples the caller may report in this state
Offered == IF script # <<>> THEN {Head(script)}
           ELSE IF recLeft > 0 THEN FreeSamples ELSE {}

\* ------------------------------------------------- GPUPowerManager methods
\* reset_clocks, the loop of lines 156-165 from device d on.  hf: the devices
\* whose nvmlDeviceGetHandleByIndex raises (line 157 is outside the try, so the
\* exception leaves reset_clocks); rf: the devices whose
\* nvmlDeviceResetGpuLockedClocks raises (caught and logged, the loop goes on).
RECURSIVE ResetLoop(_, _, _, _)
ResetLoop(m, d, hf, rf) ==
    IF d >= NumDevices THEN [calls |-> <<>>, raised |-> FALSE]
    ELSE IF d \in hf
    THEN [calls |-> <<Call("GetHandle", m, d, 0, 0, FALSE)>>, raised |-> TRUE]
    ELSE LET rest == ResetLoop(m, d + 1, hf, rf)
         IN  [calls |-> <<Call("GetHandle", m, d, 0, 0, TRUE),
                          Call("ResetLocked", m, d, 0, 0, d \notin rf)>>
                        \o rest.calls,
              raised |-> rest.raised]

\* reset_clocks (lines 149-165)
reset_clocks(m, hf, rf) ==
    IF ~mgrs[m].enabled THEN [calls |-> <<>>, raised |-> FALSE]
    ELSE ResetLoop(m, 0, hf, rf)

\* the loop of enter_decode_phase (lines 125-137) from device d on: the handle
\* is resolved (outside the try), the target clock is read, and the call of
\* nvmlDeviceSetGpuLockedClocks is commented out (line 131): only the log line
\* is left inside the try.
RECURSIVE DecodeLoop(_, _, _)
DecodeLoop(m, d, hf) ==
    IF d >= NumDevices THEN [calls |-> <<>>, raised |-> FALSE]
    ELSE IF d \in hf
    THEN [calls |-> <<Call("GetHandle", m, d, 0, 0, FALSE)>>, raised |-> TRUE]
    ELSE LET rest == DecodeLoop(m, d + 1, hf)
         IN  [calls |-> <<Call("GetHandle", m, d, 0, 0, TRUE)>> \o rest.calls,
              raised |-> rest.raised]

\* line 120: the early return of enter_decode_phase
DecodeSkips(m) == ~mgrs[m].enabled \/ mgrs[m].in_decode_phase

\* line 143: the early return of enter_prefill_phase
PrefillSkips(m) == ~mgrs[m].enabled \/ ~mgrs[m].in_decode_phase

\* mutant: the enabled test of line 173 is missing
RecordSkipsNoEnabledTest(m) == ~mgrs[m].monitor_tbt

\* line 173: the early return of record_tbt
RecordSkips(m) == ~mgrs[m].enabled \/ ~mgrs[m].monitor_tbt

\* mutant: a window of 3 samples in place of 10
TrimKeepThree(w) == IF Len(w) > MinSamples THEN Tail(w) ELSE w

\* mutant: pop() in place of pop(0) drops the newest sample
TrimPopNewest(w) ==
    IF Len(w) > WindowCapacity THEN SubSeq(w, 1, Len(w) - 1) ELSE w

\* lines 177-181: append, then pop(0) when more than 10 values are held
Trim(w) == IF Len(w) > WindowCapacity THEN Tail(w) ELSE w

\* lines 184-187: sum(w)/len(w) > threshold, on a window of at least 3 samples
\* (the division is exact enough that it equals sum(w) > threshold*len(w))
ShouldRollback(m, w) ==
    /\ mgrs[m].in_decode_phase
    /\ Len(w) >= MinSamples
    /\ Sum(w) > mgrs[m].threshold * Len(w)

\* __del__ (lines 109-116): reset_clocks, then nvmlShutdown inside try/except
\* (an exception of nvmlShutdown is swallowed and changes nothing).  An
\* exception leaving reset_clocks leaves __del__ too (the interpreter reports
\* and drops it): nvmlShutdown is then not called.
DelRun(m, hf, rf) ==
    IF ~mgrs[m].enabled THEN [calls |-> <<>>, raised |-> FALSE]
    ELSE LET r == reset_clocks(m, hf, rf)
         IN  IF r.raised THEN r
             ELSE [calls |-> r.calls \o <<Call("nvmlShutdown", m, 0, 0, 0, TRUE)>>,
                   raised |-> FALSE]

\* the devices a run issued the reset call for
ResetDevices(cs) == {cs[i].dev : i \in {j \in 1 .. Len(cs) : cs[j].fn = "ResetLocked"}}

\* the runs reset_clocks, enter_decode_phase's loop and __del__ can take on
\* manager m, over every way the NVML calls can fail
Failing == SUBSET device_ids
ResetRuns(m) == {reset_clocks(m, hf, rf) : hf \in Failing, rf \in Failing}
DecodeRuns(m) == {DecodeLoop(m, 0, hf) : hf \in Failing}
DelRuns(m) == {DelRun(m, hf, rf) : hf \in Failing, rf \in Failing}

\* what is left of a manager whose __del__ ran: the object is gone; the record
\* keeps whether it was enabled and counts the runs of __del__
Finalized(m) == [NoManager EXCEPT !.life = "dead", !.enabled = mgrs[m].enabled,
                                  !.dels = mgrs[m].dels + 1]

\* ------------------------------------------------------------------ state
\* the workloads explored: the scripted latency stream, the slow burst and
\* free samples, each with one initialize_power_manager call, and MaxManagers
\* calls of initialize_power_manager with no latency reported
Workloads ==
    { [recLeft |-> 0, script |-> SubSeq(Stream, 1, MaxRecords), inits |-> 1],
      [recLeft |-> 0, script |-> SlowBurst, inits |-> 1],
      [recLeft |-> MaxFreeRecords, script |-> <<>>, inits |-> 1],
      [recLeft |-> 0, script |-> <<>>, inits |-> MaxManagers] }

\* module load: the import of pynvml succeeded or not, _power_manager = None
Init ==
    /\ NVML_AVAILABLE \in BOOLEAN
    /\ mgrs = [m \in ManagerIds |-> NoManager]
    /\ power_manager = 0
    /\ tbt_values = <<>>
    /\ recorded = <<>>
    /\ \E w \in Workloads : /\ recLeft = w.recLeft
                            /\ script = w.script
                            /\ initLeft = w.inits
    /\ nextId = 1
    /\ proc = "running"
    /\ calls = <<>>
    /\ last = NoOp
    /\ NoThreads

\* ---------------------------------------------------------------- actions
\* module-level enter_decode_phase (lines 244-247) and
\* GPUPowerManager.enter_decode_phase (lines 118-139)
EnterDecode ==
    /\ proc = "running"
    /\ LET m == power_manager
       IN  IF m = 0 \/ DecodeSkips(m)
           THEN /\ calls' = <<>>
                /\ last' = Op("enter_decode_phase", m)
                /\ UNCHANGED mgrs
           ELSE \E r \in DecodeRuns(m) :
                    /\ calls' = r.calls
                    /\ last' = [Op("enter_decode_phase", m) EXCEPT !.raised = r.raised]
                    /\ mgrs' = IF r.raised THEN mgrs
                               ELSE [mgrs EXCEPT ![m].in_decode_phase = TRUE]
    /\ UNCHANGED <<NVML_AVAILABLE, power_manager, tbt_values, recorded, nextId,
                   proc, initLeft, recLeft, script>>
    /\ UNCHANGED concVars

\* mutant: enter_prefill_phase empties the latency window when it resets
EnterPrefillClearsWindow ==
    /\ proc = "running"
    /\ LET m == power_manager
       IN  IF m = 0 \/ PrefillSkips(m)
           THEN /\ calls' = <<>>
                /\ last' = Op("enter_prefill_phase", m)
                /\ UNCHANGED <<mgrs, tbt_values>>
           ELSE \E r \in ResetRuns(m) :
                    /\ calls' = r.calls
                    /\ last' = [Op("enter_prefill_phase", m) EXCEPT !.raised = r.raised]
                    /\ tbt_values' = <<>>
                    /\ mgrs' = IF r.raised THEN mgrs
                               ELSE [mgrs EXCEPT ![m].in_decode_phase = FALSE]
    /\ UNCHANGED <<NVML_AVAILABLE, power_manager, recorded, nextId,
                   proc, initLeft, recLeft, script>>
    /\ UNCHANGED concVars

\* module-level enter_prefill_phase (lines 250-253) and
\* GPUPowerManager.enter_prefill_phase (lines 141-147)
EnterPrefill ==
    /\ proc = "running"
    /\ LET m == power_manager
       IN  IF m = 0 \/ PrefillSkips(m)
           THEN /\ calls' = <<>>
                /\ last' = Op("enter_prefill_phase", m)
                /\ UNCHANGED mgrs
           ELSE \E r \in ResetRuns(m) :
                    /\ calls' = r.calls
                    /\ last' = [Op("enter_prefill_phase", m) EXCEPT !.raised = r.raised]
                    /\ mgrs' = IF r.raised THEN mgrs
                               ELSE [mgrs EXCEPT ![m].in_decode_phase = FALSE]
    /\ UNCHANGED <<NVML_AVAILABLE, power_manager, tbt_values, recorded, nextId,
                   proc, initLeft, recLeft, script>>
    /\ UNCHANGED concVars

\* module-level record_tbt (lines 256-263) and GPUPowerManager.record_tbt
\* (lines 167-192), the whole body under tbt_lock
RecordTbt(tbt_ms) ==
    /\ proc = "running"
    /\ tbt_ms \in Offered
    /\ script' = IF script # <<>> THEN Tail(script) ELSE script
    /\ recLeft' = IF script # <<>> THEN recLeft ELSE recLeft - 1
    /\ LET m == power_manager
           skip == [Op("record_tbt", m) EXCEPT !.tbt = tbt_ms]
           op == [skip EXCEPT !.streak =
                     IF mgrs[m].in_decode_phase /\ tbt_ms > mgrs[m].threshold
                     THEN (IF last.op = "record_tbt" /\ last.mgr = m
                           THEN last.streak ELSE 0) + 1
                     ELSE 0]
       IN  IF m = 0 \/ RecordSkips(m)
           THEN /\ calls' = <<>>
                /\ last' = skip
                /\ UNCHANGED <<mgrs, tbt_values, recorded>>
           ELSE LET w == Trim(Append(tbt_values, tbt_ms))
                IN  /\ tbt_values' = w
                    /\ recorded' = Append(recorded, tbt_ms)
                    /\ IF ShouldRollback(m, w)
                       THEN \E r \in ResetRuns(m) :
                                /\ calls' = r.calls
                                /\ last' = [op EXCEPT !.rollback = TRUE,
                                                      !.raised = r.raised]
                                /\ mgrs' = IF r.raised THEN mgrs
                                           ELSE [mgrs EXCEPT ![m].in_decode_phase = FALSE]
                       ELSE /\ calls' = <<>>
                            /\ last' = op
                            /\ UNCHANGED mgrs
    /\ UNCHANGED <<NVML_AVAILABLE, power_manager, nextId, proc, initLeft>>
    /\ UNCHANGED concVars

\* the loop of __init__ (lines 83-98) from device d on.  hc: the devices whose
\* handle resolution or clock query raises; nothing in __init__ catches it.
RECURSIVE QueryLoop(_, _, _)
QueryLoop(m, d, hc) ==
    IF d >= NumDevices THEN [calls |-> <<>>, raised |-> FALSE]
    ELSE IF d \in hc
    THEN [calls |-> <<Call("GetHandle", m, d, 0, 0, FALSE)>>, raised |-> TRUE]
    ELSE LET rest == QueryLoop(m, d + 1, hc)
         IN  [calls |-> <<Call("GetHandle", m, d, 0, 0, TRUE),
                          Call("GetMaxClockInfo", m, d, 0, 0, TRUE),
                          Call("GetClockInfo", m, d, 0, 0, TRUE)>> \o rest.calls,
              raised |-> rest.raised]

\* __init__ of an enabled manager (lines 69-107).  initRaises: nvmlInit raises
\* (line 70, not caught); built: device_ids was assigned (line 74 or 76).
Construct(m, initRaises, hc) ==
    IF initRaises
    THEN [calls |-> <<Call("nvmlInit", m, 0, 0, 0, FALSE)>>, raised |-> TRUE,
          built |-> FALSE]
    ELSE LET q == QueryLoop(m, 0, hc)
         IN  [calls |-> <<Call("nvmlInit", m, 0, 0, 0, TRUE)>> \o q.calls,
              raised |-> q.raised, built |-> TRUE]

ConstructRuns(m) == {Construct(m, ir, hc) : ir \in BOOLEAN, hc \in Failing}

\* line 58: self.enabled = enabled and NVML_AVAILABLE
Enabled(enabled) == enabled /\ NVML_AVAILABLE

\* line 220-222: the global reference to the previous manager is dropped; its
\* __del__ runs there only if nothing else refers to it
Dropped(old) == old # 0 /\ ~mgrs[old].held

\* initialize_power_manager (lines 199-232).  keep: the caller keeps the
\* returned handle; percent: decode_clock_reduction_percent; max_sm_clock: what
\* nvmlDeviceGetMaxClockInfo reports for the devices.
InitializeWith(enabled, monitor_tbt, keep, percent, max_sm_clock) ==
    /\ proc = "running"
    /\ initLeft > 0
    /\ LET old == power_manager
           id == nextId
       IN  \E d \in IF Dropped(old) THEN DelRuns(old)
                    ELSE {[calls |-> <<>>, raised |-> FALSE]} :
           \E c \in IF Enabled(enabled) THEN ConstructRuns(id)
                    ELSE {[calls |-> <<>>, raised |-> FALSE, built |-> FALSE]} :
             LET m1 == IF Dropped(old)
                       THEN [mgrs EXCEPT ![old] = Finalized(old)]
                       ELSE mgrs
                 new == [NoManager EXCEPT
                            !.life = IF c.raised THEN "failed" ELSE "live",
                            !.enabled = Enabled(enabled),
                            !.monitor_tbt = monitor_tbt,
                            !.held = keep /\ ~c.raised,
                            !.built = c.built,
                            !.max_sm_clock = max_sm_clock,
                            !.percent = percent,
                            !.target = TargetClock(max_sm_clock, percent),
                            !.threshold = DefaultThreshold]
             IN  /\ mgrs' = [m1 EXCEPT ![id] = new]
                 /\ power_manager' = IF c.raised THEN 0 ELSE id
                 /\ calls' = d.calls \o c.calls
                 /\ last' = [Op("initialize", id) EXCEPT
                                !.was = FALSE,
                                !.raised = c.raised,
                                !.fin = IF Dropped(old) THEN old ELSE 0,
                                !.old = old,
                                !.oldheld = old # 0 /\ mgrs[old].held,
                                !.oldwas = old # 0 /\ mgrs[old].in_decode_phase]
    /\ nextId' = nextId + 1
    /\ initLeft' = initLeft - 1
    /\ tbt_values' = <<>>
    /\ recorded' = <<>>
    /\ UNCHANGED <<NVML_AVAILABLE, proc, recLeft, script>>
    /\ UNCHANGED concVars

\* initialize_power_manager with the default reduction percentage, on devices
\* whose maximum SM clock is MaxSmClock
Initialize(enabled, monitor_tbt, keep) ==
    InitializeWith(enabled, monitor_tbt, keep,
                   DEFAULT_DECODE_CLOCK_REDUCTION, MaxSmClock)

\* mutant: dropping the returned handle also clears the phase flag
DropHandleClearsPhase(m) ==
    /\ proc = "running"
    /\ mgrs[m].life = "live"
    /\ mgrs[m].held
    /\ mgrs' = [mgrs EXCEPT ![m].held = FALSE, ![m].in_decode_phase = FALSE]
    /\ calls' = <<>>
    /\ last' = Op("drop", m)
    /\ UNCHANGED <<NVML_AVAILABLE, power_manager, tbt_values, recorded, nextId,
                   proc, initLeft, recLeft, script>>
    /\ UNCHANGED concVars

\* the caller drops the handle initialize_power_manager returned; when the
\* global no longer points at that manager its __del__ runs (lines 109-116)
DropHandle(m) ==
    /\ proc = "running"
    /\ mgrs[m].life = "live"
    /\ mgrs[m].held
    /\ IF power_manager = m
       THEN /\ mgrs' = [mgrs EXCEPT ![m].held = FALSE]
            /\ calls' = <<>>
            /\ last' = Op("drop", m)
       ELSE \E d \in DelRuns(m) :
                /\ mgrs' = [mgrs EXCEPT ![m] = Finalized(m)]
                /\ calls' = d.calls
                /\ last' = [Op("drop", m) EXCEPT !.fin = m]
    /\ UNCHANGED <<NVML_AVAILABLE, power_manager, tbt_values, recorded, nextId,
                   proc, initLeft, recLeft, script>>
    /\ UNCHANGED concVars

\* an object whose __init__ raised is released once the caller has dealt with
\* the exception, and its __del__ runs (lines 109-116): enabled is already
\* True; without device_ids reset_clocks raises at line 156 before any call
ReleaseFailed(m) ==
    /\ mgrs[m].life = "failed"
    /\ proc # "gone"
    /\ \E d \in IF mgrs[m].built THEN DelRuns(m)
                 ELSE {[calls |-> <<>>, raised |-> TRUE]} :
          calls' = d.calls
    /\ mgrs' = [mgrs EXCEPT ![m] = [Finalized(m) EXCEPT !.life = "released"]]
    /\ last' = Op("release", m)
    /\ UNCHANGED <<NVML_AVAILABLE, power_manager, tbt_values, recorded, nextId,
                   proc, initLeft, recLeft, script>>
    /\ UNCHANGED concVars

\* the interpreter starts to shut down: no caller runs any more
ProcessExit ==
    /\ proc = "running"
    /\ proc' = "exiting"
    /\ calls' = <<>>
    /\ last' = Op("exit", 0)
    /\ UNCHANGED <<NVML_AVAILABLE, mgrs, power_manager, tbt_values, recorded,
                   nextId, initLeft, recLeft, script>>
    /\ UNCHANGED concVars

\* during shutdown the interpreter may finalize a manager that still exists
\* (__del__, lines 109-116) ...
ExitDel(m) ==
    /\ proc = "exiting"
    /\ mgrs[m].life = "live"
    /\ \E d \in DelRuns(m) :
          /\ mgrs' = [mgrs EXCEPT ![m] = Finalized(m)]
          /\ calls' = d.calls
    /\ last' = [Op("del", m) EXCEPT !.fin = m]
    /\ UNCHANGED <<NVML_AVAILABLE, power_manager, tbt_values, recorded, nextId,
                   proc, initLeft, recLeft, script>>
    /\ UNCHANGED concVars

\* ... and the process ends; Python does not promise that __del__ has run for
\* the objects that still exist then
ProcessGone ==
    /\ proc = "exiting"
    /\ proc' = "gone"
    /\ mgrs' = [m \in ManagerIds |->
                  IF mgrs[m].life = "live"
                  THEN [NoManager EXCEPT !.life = "lost",
                                         !.enabled = mgrs[m].enabled]
                  ELSE mgrs[m]]
    /\ calls' = <<>>
    /\ last' = Op("gone", 0)
    /\ UNCHANGED <<NVML_AVAILABLE, power_manager, tbt_values, recorded, nextId,
                   initLeft, recLeft, script>>
    /\ UNCHANGED concVars

Samples == FreeSamples \cup {Stream[i] : i \in 1 .. Len(Stream)}

Next ==
    \/ \E e, mon, keep \in BOOLEAN : Initialize(e, mon, keep)
    \/ EnterDecode
    \/ EnterPrefill
    \/ \E v \in Samples : RecordTbt(v)
    \/ \E m \in ManagerIds : DropHandle(m)
    \/ \E m \in ManagerIds : ReleaseFailed(m)
    \/ ProcessExit
    \/ \E m \in ManagerIds : ExitDel(m)
    \/ ProcessGone

Spec == Init /\ [][Next]_vars

\* --------------------------------------------------------- threaded runs
\* The same methods, statement by statement, run by the threads of the
\* latency-reporting path (record_tbt) and by the control-loop thread
\* (enter_decode_phase, enter_prefill_phase) on one active manager with
\* monitoring on.  A thread switch can happen between any two steps.  The NVML
\* calls succeed in these runs; their failures are explored by Spec.

\* thread t moves to statement pc
Goto(t, pc) == [threads EXCEPT ![t].pc = pc]

\* the next iteration of a device loop of thread t, or statement `after` when
\* the loop is over
NextDevice(t, after) ==
    IF threads[t].dev + 1 >= NumDevices
    THEN [threads EXCEPT ![t].pc = after, ![t].dev = 0]
    ELSE [threads EXCEPT ![t].dev = threads[t].dev + 1]

\* line 173: record_tbt is entered with the next sample; the early return is
\* taken or the thread goes on to the with statement
RecStart(t) ==
    /\ threads[t].pc = "idle"
    /\ script # <<>>
    /\ script' = Tail(script)
    /\ threads' = IF RecordSkips(power_manager) THEN threads
                  ELSE [threads EXCEPT ![t].pc = "acquire", ![t].tbt = Head(script)]
    /\ UNCHANGED <<NVML_AVAILABLE, mgrs, power_manager, tbt_values, recorded,
                   nextId, proc, calls, last, initLeft, recLeft, tbt_lock,
                   clock_log, ctlLeft>>

\* mutant: the with statement does not wait for the lock
RecAcquireNoWait(t) ==
    /\ threads[t].pc = "acquire"
    /\ tbt_lock' = t
    /\ threads' = Goto(t, "append")
    /\ UNCHANGED <<NVML_AVAILABLE, mgrs, power_manager, tbt_values, recorded,
                   nextId, proc, calls, last, initLeft, recLeft, script,
                   clock_log, ctlLeft>>

\* line 176: with self.tbt_lock, entered when the lock is free
RecAcquire(t) ==
    /\ threads[t].pc = "acquire"
    /\ tbt_lock = 0
    /\ tbt_lock' = t
    /\ threads' = Goto(t, "append")
    /\ UNCHANGED <<NVML_AVAILABLE, mgrs, power_manager, tbt_values, recorded,
                   nextId, proc, calls, last, initLeft, recLeft, script,
                   clock_log, ctlLeft>>

\* line 177: self.tbt_values.append(tbt_ms)
RecAppend(t) ==
    /\ threads[t].pc = "append"
    /\ tbt_values' = Append(tbt_values, threads[t].tbt)
    /\ recorded' = Append(recorded, threads[t].tbt)
    /\ threads' = Goto(t, "evict")
    /\ UNCHANGED <<NVML_AVAILABLE, mgrs, power_manager, nextId, proc, calls,
                   last, initLeft, recLeft, script, tbt_lock, clock_log, ctlLeft>>

\* lines 180-181: pop(0) when more than 10 values are held
RecEvict(t) ==
    /\ threads[t].pc = "evict"
    /\ tbt_values' = Trim(tbt_values)
    /\ threads' = Goto(t, "check")
    /\ UNCHANGED <<NVML_AVAILABLE, mgrs, power_manager, recorded, nextId, proc,
                   calls, last, initLeft, recLeft, script, tbt_lock, clock_log,
                   ctlLeft>>

\* lines 184-187: the phase flag and the window are read and the mean is
\* compared with the threshold
RecCheck(t) ==
    /\ threads[t].pc = "check"
    /\ threads' = IF ShouldRollback(power_manager, tbt_values)
                  THEN Goto(t, "reset")
                  ELSE Goto(t, "release")
    /\ UNCHANGED <<NVML_AVAILABLE, mgrs, power_manager, tbt_values, recorded,
                   nextId, proc, calls, last, initLeft, recLeft, script,
                   tbt_lock, clock_log, ctlLeft>>

\* line 191: one iteration of the loop of reset_clocks (lines 156-160)
RecReset(t) ==
    /\ threads[t].pc = "reset"
    /\ clock_log' = [clock_log EXCEPT ![threads[t].dev] = "reset"]
    /\ threads' = NextDevice(t, "write")
    /\ UNCHANGED <<NVML_AVAILABLE, mgrs, power_manager, tbt_values, recorded,
                   nextId, proc, calls, last, initLeft, recLeft, script,
                   tbt_lock, ctlLeft>>

\* line 192: self.in_decode_phase = False
RecWrite(t) ==
    /\ threads[t].pc = "write"
    /\ mgrs' = [mgrs EXCEPT ![power_manager].in_decode_phase = FALSE]
    /\ threads' = Goto(t, "release")
    /\ UNCHANGED <<NVML_AVAILABLE, power_manager, tbt_values, recorded, nextId,
                   proc, calls, last, initLeft, recLeft, script, tbt_lock,
                   clock_log, ctlLeft>>

\* the end of the with block of line 176: the lock is released, record_tbt
\* returns
RecRelease(t) ==
    /\ threads[t].pc = "release"
    /\ tbt_lock' = 0
    /\ threads' = [threads EXCEPT ![t] = Idle]
    /\ UNCHANGED <<NVML_AVAILABLE, mgrs, power_manager, tbt_values, recorded,
                   nextId, proc, calls, last, initLeft, recLeft, script,
                   clock_log, ctlLeft>>

\* line 120: the control loop calls enter_decode_phase; the early return is
\* taken or the thread goes on to the device loop
CtlDecodeStart ==
    /\ threads[CtlThread].pc = "idle"
    /\ ctlLeft > 0
    /\ ctlLeft' = ctlLeft - 1
    /\ threads' = IF DecodeSkips(power_manager) THEN threads
                  ELSE Goto(CtlThread, "apply")
    /\ UNCHANGED <<NVML_AVAILABLE, mgrs, power_manager, tbt_values, recorded,
                   nextId, proc, calls, last, initLeft, recLeft, script,
                   tbt_lock, clock_log>>

\* lines 126-134: one iteration of the loop of enter_decode_phase, the apply
\* step of the device
CtlApply ==
    /\ threads[CtlThread].pc = "apply"
    /\ clock_log' = [clock_log EXCEPT ![threads[CtlThread].dev] = "apply"]
    /\ threads' = NextDevice(CtlThread, "set_decode")
    /\ UNCHANGED <<NVML_AVAILABLE, mgrs, power_manager, tbt_values, recorded,
                   nextId, proc, calls, last, initLeft, recLeft, script,
                   tbt_lock, ctlLeft>>

\* line 139: self.in_decode_phase = True
CtlSetDecode ==
    /\ threads[CtlThread].pc = "set_decode"
    /\ mgrs' = [mgrs EXCEPT ![power_manager].in_decode_phase = TRUE]
    /\ threads' = Goto(CtlThread, "idle")
    /\ UNCHANGED <<NVML_AVAILABLE, power_manager, tbt_values, recorded, nextId,
                   proc, calls, last, initLeft, recLeft, script, tbt_lock,
                   clock_log, ctlLeft>>

\* line 143: the control loop calls enter_prefill_phase; the early return is
\* taken or the thread goes on to reset_clocks
CtlPrefillStart ==
    /\ threads[CtlThread].pc = "idle"
    /\ ctlLeft > 0
    /\ ctlLeft' = ctlLeft - 1
    /\ threads' = IF PrefillSkips(power_manager) THEN threads
                  ELSE Goto(CtlThread, "reset")
    /\ UNCHANGED <<NVML_AVAILABLE, mgrs, power_manager, tbt_values, recorded,
                   nextId, proc, calls, last, initLeft, recLeft, script,
                   tbt_lock, clock_log>>

\* line 146: one iteration of the loop of reset_clocks (lines 156-160)
CtlReset ==
    /\ threads[CtlThread].pc = "reset"
    /\ clock_log' = [clock_log EXCEPT ![threads[CtlThread].dev] = "reset"]
    /\ threads' = NextDevice(CtlThread, "set_prefill")
    /\ UNCHANGED <<NVML_AVAILABLE, mgrs, power_manager, tbt_values, recorded,
                   nextId, proc, calls, last, initLeft, recLeft, script,
                   tbt_lock, ctlLeft>>

\* line 147: self.in_decode_phase = False
CtlSetPrefill ==
    /\ threads[CtlThread].pc = "set_prefill"
    /\ mgrs' = [mgrs EXCEPT ![power_manager].in_decode_phase = FALSE]
    /\ threads' = Goto(CtlThread, "idle")
    /\ UNCHANGED <<NVML_AVAILABLE, power_manager, tbt_values, recorded, nextId,
                   proc, calls, last, initLeft, recLeft, script, tbt_lock,
                   clock_log, ctlLeft>>

\* the threaded workloads: one sample more than the window holds, reported
\* while the control loop is quiet, and a burst above the threshold reported while the control loop
\* makes MaxCtlCalls phase calls
ConcWorkloads ==
    { [script |-> SubSeq(Stream, 1, WindowCapacity + 1), ctl |-> 0],
      [script |-> SubSeq(Stream, 4, 6), ctl |-> MaxCtlCalls] }

\* the manager initialize_power_manager(enabled=True, monitor_tbt=True) has
\* installed, pynvml being importable
FirstManager ==
    [NoManager EXCEPT !.life = "live", !.enabled = Enabled(TRUE),
                      !.monitor_tbt = TRUE, !.built = TRUE,
                      !.max_sm_clock = MaxSmClock,
                      !.percent = DEFAULT_DECODE_CLOCK_REDUCTION,
                      !.target = TargetClock(MaxSmClock,
                                             DEFAULT_DECODE_CLOCK_REDUCTION),
                      !.threshold = DefaultThreshold]

\* the threads start after the manager was installed: phase Prefill, window
\* empty, lock free
ConcInit ==
    /\ NVML_AVAILABLE = TRUE
    /\ mgrs = [m \in ManagerIds |-> IF m = 1 THEN FirstManager ELSE NoManager]
    /\ power_manager = 1
    /\ tbt_values = <<>>
    /\ recorded = <<>>
    /\ recLeft = 0
    /\ initLeft = 0
    /\ nextId = 2
    /\ proc = "running"
    /\ calls = <<>>
    /\ last = NoOp
    /\ threads = [t \in Threads |-> Idle]
    /\ tbt_lock = 0
    /\ clock_log = [d \in device_ids |-> "none"]
    /\ \E w \in ConcWorkloads : script = w.script /\ ctlLeft = w.ctl

ConcNext ==
    \/ \E t \in LatThreads : RecStart(t)
    \/ \E t \in LatThreads : RecAcquire(t)
    \/ \E t \in LatThreads : RecAppend(t)
    \/ \E t \in LatThreads : RecEvict(t)
    \/ \E t \in LatThreads : RecCheck(t)
    \/ \E t \in LatThreads : RecReset(t)
    \/ \E t \in LatThreads : RecWrite(t)
    \/ \E t \in LatThreads : RecRelease(t)
    \/ CtlDecodeStart
    \/ CtlApply
    \/ CtlSetDecode
    \/ CtlPrefillStart
    \/ CtlReset
    \/ CtlSetPrefill

ConcSpec == ConcInit /\ [][ConcNext]_vars

\* ------------------------------------------------------------ properties
\* the positions in `calls` of the calls fn that manager m made for device d
CallIdx(fn, m, d) ==
    {i \in 1 .. Len(calls) :
        calls[i].fn = fn /\ calls[i].mgr = m /\ calls[i].dev = d}

\* the most recent operation ran on manager m, which exists and is enabled
OnActive(m) == m # 0 /\ mgrs[m].life # "none" /\ mgrs[m].enabled

\* the most recent operation ran on manager m, which exists and is inert
OnInert(m) == m # 0 /\ mgrs[m].life # "none" /\ ~mgrs[m].enabled

\* C1: an inert manager (enabled=false, or pynvml missing at import) never
\* issues an NVML call and never stores a latency sample, whatever is called on
\* it and also when it is torn down.
C1_InertNoCallsNoSamples ==
    /\ \A i \in 1 .. Len(calls) : ~OnInert(calls[i].mgr)
    /\ OnInert(power_manager) => tbt_values = <<>> /\ recorded = <<>>
    /\ OnInert(last.mgr) /\ last.op # "initialize" => calls = <<>>

\* C1 witness: an inert manager, built while pynvml is missing, was torn down
\* after latency samples had been reported
C1_Witness ==
    /\ ~NVML_AVAILABLE
    /\ last.op = "del"
    /\ OnInert(last.fin)
    /\ Len(script) < MaxRecords
    /\ recLeft = 0

\* C6: the window never holds more than 10 samples and always is the most
\* recent min(n, 10) of the n samples recorded, oldest first.
C6_WindowIsLastTen ==
    /\ Len(tbt_values) <= WindowCapacity
    /\ tbt_values = LastN(recorded, WindowCapacity)

\* C6 witness: 11 samples were recorded; the first is gone and the last 10
\* remain in the order they came
C6_Witness ==
    /\ Len(recorded) = WindowCapacity + 1
    /\ tbt_values = SubSeq(recorded, 2, WindowCapacity + 1)
    /\ \A i \in 1 .. Len(tbt_values) : tbt_values[i] # recorded[1]

\* manager m issued the reset call for every managed device
AllReset(m) == \A d \in device_ids : CallIdx("ResetLocked", m, d) # {}

\* the mean of the window is above the threshold of manager m
MeanAbove(m) == Sum(tbt_values) > mgrs[m].threshold * Len(tbt_values)

\* every handle resolution of the most recent operation succeeded
HandlesResolved ==
    \A i \in 1 .. Len(calls) : calls[i].fn = "GetHandle" => calls[i].ok

\* C2: enter_decode_phase on an active manager in Prefill issues exactly one
\* set-locked-clocks(target, target) call per managed device, with the device's
\* planned target (1900 for max clock 2000 and 5 percent), and the phase is
\* Decode afterwards.  Stated of the calls in which every handle resolves, so
\* that what refutes it is the missing call and not an exception.
C2_DecodeLocksEveryDevice ==
    (last.op = "enter_decode_phase" /\ OnActive(last.mgr) /\ ~last.was
     /\ HandlesResolved) =>
        LET m == last.mgr
        IN  /\ \A d \in device_ids :
                 /\ Cardinality(CallIdx("SetLocked", m, d)) = 1
                 /\ \A i \in CallIdx("SetLocked", m, d) :
                       /\ calls[i].lo = mgrs[m].target
                       /\ calls[i].hi = mgrs[m].target
                       /\ mgrs[m].target = 1900
            /\ mgrs[m].in_decode_phase

\* C3: record_tbt on an active manager resets every device and sets the phase
\* to Prefill exactly when, with the sample appended and the window trimmed,
\* the phase was Decode, the window holds at least 3 samples and its mean is
\* strictly above the threshold; otherwise the phase is unchanged and no reset
\* is issued.
C3_RollbackExactlyWhen ==
    (last.op = "record_tbt" /\ OnActive(last.mgr)) =>
        LET m == last.mgr
        IN  IF last.was /\ Len(tbt_values) >= MinSamples /\ MeanAbove(m)
            THEN AllReset(m) /\ ~mgrs[m].in_decode_phase
            ELSE mgrs[m].in_decode_phase = last.was /\ calls = <<>>

\* What holds of record_tbt in every run: the branch of line 187 is taken
\* exactly under the condition of C3, nothing happens otherwise, and the
\* rollback is complete whenever reset_clocks returns.
RollbackDecisionExact ==
    (last.op = "record_tbt" /\ OnActive(last.mgr)) =>
        LET m == last.mgr
        IN  /\ last.rollback <=>
                  (last.was /\ Len(tbt_values) >= MinSamples /\ MeanAbove(m))
            /\ ~last.rollback => mgrs[m].in_decode_phase = last.was /\ calls = <<>>
            /\ last.rollback /\ ~last.raised =>
                  AllReset(m) /\ ~mgrs[m].in_decode_phase
            /\ last.raised => last.rollback /\ mgrs[m].in_decode_phase

\* C4: initialize_power_manager, called while the previous manager is active
\* and in Decode, resets the clocks of every device of the previous manager
\* before that manager is discarded and the new one is built, also when a
\* caller still holds the handle of the previous manager.  Stated of the calls
\* in which every handle resolves.
C4_ReinitRestoresPrevious ==
    (last.op = "initialize" /\ OnActive(last.old) /\ last.oldwas
     /\ HandlesResolved) =>
        LET old == last.old
        IN  /\ mgrs[old].life = "dead"
            /\ AllReset(old)
            /\ \A i \in 1 .. Len(calls) : \A j \in 1 .. Len(calls) :
                  (calls[i].fn = "ResetLocked" /\ calls[i].mgr = old
                   /\ calls[j].mgr = last.mgr) => i < j

\* C5: the second of two consecutive enter_decode_phase calls, and the second
\* of two consecutive enter_prefill_phase calls, on an active manager issues
\* no NVML call and changes no state.
C5_SecondCallIsNoOp ==
    (last.op \in {"enter_decode_phase", "enter_prefill_phase"}
     /\ last.again /\ OnActive(last.mgr)) =>
        /\ calls = <<>>
        /\ mgrs[last.mgr].in_decode_phase = last.was

\* What holds of the two phase calls in every run: a call that returned
\* normally makes the same call after it a no-op.
SecondCallAfterReturnIsNoOp ==
    [][(last.op \in {"enter_decode_phase", "enter_prefill_phase"}
        /\ ~last.raised /\ OnActive(last.mgr)
        /\ last'.op = last.op /\ last'.mgr = last.mgr /\ last'.again)
       => (calls' = <<>> /\ mgrs' = mgrs)]_vars

\* the scenario of C7 after its k-th sample: threshold 100, the phase was
\* Decode when the sample was recorded, the samples so far are the first k of
\* 50, 60, 70, 150, 160, 170
InScenarioC(k) ==
    /\ last.op = "record_tbt"
    /\ OnActive(last.mgr)
    /\ mgrs[last.mgr].monitor_tbt
    /\ mgrs[last.mgr].threshold = 100
    /\ last.was
    /\ recorded = SubSeq(ScenarioC, 1, k)

C8_TeardownResetsBeforeShutdown ==
    OnActive(last.fin) =>
        LET m == last.fin
        IN  /\ AllReset(m)
            /\ \A i \in 1 .. Len(calls) : \A j \in 1 .. Len(calls) :
                  (calls[i].fn = "ResetLocked" /\ calls[i].mgr = m
                   /\ calls[j].fn = "nvmlShutdown" /\ calls[j].mgr = m) => i < j

\* What holds of __del__ in every run: the reset calls it issues come before
\* its nvmlShutdown call, and nvmlShutdown is called only after the reset
\* call of every device.
ShutdownOnlyAfterEveryReset ==
    OnActive(last.fin) =>
        LET m == last.fin
        IN  \A j \in 1 .. Len(calls) :
                (calls[j].fn = "nvmlShutdown" /\ calls[j].mgr = m) =>
                /\ AllReset(m)
                /\ \A i \in 1 .. Len(calls) :
                      (calls[i].fn = "ResetLocked" /\ calls[i].mgr = m) => i < j

\* C9: every active manager that was discarded (its __del__ ran, or the
\* process ended) had its final clock restoration exactly once: __del__ ran
\* once, and reset every device once.
C9_FinalRestoreExactlyOnce ==
    \A m \in ManagerIds :
        (mgrs[m].enabled /\ mgrs[m].life \in {"dead", "lost"}) =>
            /\ mgrs[m].dels = 1
            /\ last.fin = m =>
                  \A d \in device_ids : Cardinality(CallIdx("ResetLocked", m, d)) = 1

\* What holds of __del__ in every run: no manager is finalized twice, and a
\* finalization never resets a device twice.
FinalRestoreAtMostOnce ==
    \A m \in ManagerIds :
        /\ mgrs[m].dels <= 1
        /\ last.fin = m =>
              \A d \in device_ids : Cardinality(CallIdx("ResetLocked", m, d)) <= 1

\* What holds of reset_clocks in every run: a reset call that fails does not
\* stop the loop; only a handle resolution that raises does.
ResetFailureDoesNotStopOthers ==
    ( /\ last.op = "enter_prefill_phase"
         \/ (last.op = "record_tbt" /\ last.rollback)
      /\ OnActive(last.mgr) /\ last.was /\ HandlesResolved )
    => (AllReset(last.mgr) /\ ~mgrs[last.mgr].in_decode_phase)

\* C10: when the set-clock or reset-clock call of one device fails during
\* enter_decode_phase, enter_prefill_phase or a rollback, the call is still
\* attempted for every remaining device and the phase change completes.
\* enter_decode_phase never reads the outcome of a set-clock call, so each of
\* its runs is also the run in which the call of a device d0 would fail.
\* Stated of the calls in which every handle resolves.
C10_FailedDeviceDoesNotStopOthers ==
    /\ ( /\ last.op = "enter_prefill_phase"
            \/ (last.op = "record_tbt" /\ last.rollback)
         /\ OnActive(last.mgr) /\ last.was /\ HandlesResolved
         /\ \E i \in 1 .. Len(calls) : calls[i].fn = "ResetLocked" /\ ~calls[i].ok )
       => (AllReset(last.mgr) /\ ~mgrs[last.mgr].in_decode_phase)
    /\ (last.op = "enter_decode_phase" /\ OnActive(last.mgr) /\ ~last.was
        /\ HandlesResolved)
       => /\ \E d0 \in device_ids : \A d \in device_ids \ {d0} :
                CallIdx("SetLocked", last.mgr, d) # {}
          /\ mgrs[last.mgr].in_decode_phase

\* the three operations the token-generation path calls
HotPathOps == {"enter_decode_phase", "enter_prefill_phase", "record_tbt"}

\* C11: enter_decode_phase, enter_prefill_phase and record_tbt always return
\* normally: no failure of handle resolution, of the set call or of the reset
\* call leaves them as an exception.
C11_HotPathNeverRaises ==
    last.op \in HotPathOps => ~last.raised

\* What holds of the three operations in every run: a failing reset call never
\* leaves them; an exception that does leave them is a failed handle
\* resolution, the last call the operation made.
OnlyHandleResolutionRaises ==
    last.op \in HotPathOps =>
        /\ last.raised =>
              /\ calls # <<>>
              /\ calls[Len(calls)].fn = "GetHandle"
              /\ ~calls[Len(calls)].ok
        /\ HandlesResolved => ~last.raised

\* a call of the constructor of the manager just built failed: nvmlInit, or the
\* handle resolution or clock query of a device
ConstructionFailed ==
    /\ last.op = "initialize"
    /\ \E i \in 1 .. Len(calls) : calls[i].mgr = last.mgr /\ ~calls[i].ok

\* C12: when pynvml is importable and nvmlInit or a device query fails while a
\* manager is constructed with enabled=true, initialize_power_manager does not
\* raise: it installs a manager that is inert.
C12_ConstructionFailsClosed ==
    ConstructionFailed =>
        /\ ~last.raised
        /\ power_manager = last.mgr
        /\ ~mgrs[last.mgr].enabled

\* What holds of the constructor in every run: a failing call always leaves
\* initialize_power_manager as an exception, no manager is installed, and the
\* half-built object has enabled = True.
ConstructionFailureRaises ==
    ConstructionFailed =>
        /\ last.raised
        /\ power_manager = 0
        /\ mgrs[last.mgr].enabled
        /\ mgrs[last.mgr].life = "failed"

\* ------------------------------------------------- the clock plan (C13)
\* reduction percentages and maximum SM clocks (MHz) the constructor is given:
\* both ends of 0..100, the default, and quotients that are not integers
Percents == {0, DEFAULT_DECODE_CLOCK_REDUCTION, 33, 100}
MaxClocks == {0, 1, 210, MaxSmClock}

\* module load, before one call of initialize_power_manager
ClockInit ==
    /\ NVML_AVAILABLE \in BOOLEAN
    /\ mgrs = [m \in ManagerIds |-> NoManager]
    /\ power_manager = 0
    /\ tbt_values = <<>>
    /\ recorded = <<>>
    /\ recLeft = 0
    /\ script = <<>>
    /\ initLeft = 1
    /\ nextId = 1
    /\ proc = "running"
    /\ calls = <<>>
    /\ last = NoOp
    /\ NoThreads

\* initialize_power_manager with any of the percentages, on devices with any
\* of the maximum clocks
ClockNext ==
    \E e, mon, keep \in BOOLEAN : \E r \in Percents : \E c \in MaxClocks :
        InitializeWith(e, mon, keep, r, c)

ClockSpec == ClockInit /\ [][ClockNext]_vars

\* C13: the target clock of every constructed active manager is
\* floor(m*(100-r)/100) for its maximum clock m and reduction percentage r,
\* and lies in 0..m.
C13_TargetIsFloorWithinMax ==
    \A m \in ManagerIds :
        (mgrs[m].life = "live" /\ mgrs[m].enabled) =>
            LET t == mgrs[m].target
                x == mgrs[m].max_sm_clock * (100 - mgrs[m].percent)
            IN  /\ 100 * t <= x
                /\ x < 100 * (t + 1)
                /\ 0 <= t
                /\ t <= mgrs[m].max_sm_clock

\* C13 witness: a manager was constructed with a percentage and a maximum
\* clock whose quotient is not an integer, and its target is below the maximum
C13_Witness ==
    \E m \in ManagerIds :
        /\ mgrs[m].life = "live"
        /\ mgrs[m].enabled
        /\ mgrs[m].percent = 33
        /\ mgrs[m].max_sm_clock = 210
        /\ mgrs[m].target = 140
        /\ last.op = "initialize"
        /\ last.mgr = m

\* the step changes the phase flag of manager m, which exists before and after
PhaseChanged(m) ==
    /\ mgrs[m].life = "live"
    /\ mgrs'[m].life = "live"
    /\ mgrs'[m].in_decode_phase # mgrs[m].in_decode_phase

\* C14 as stated: the phase of a manager changes only in a step of
\* enter_decode_phase or enter_prefill_phase on that manager.
C14_PhaseChangesOnlyByPhaseCalls ==
    [][\A m \in ManagerIds :
          PhaseChanged(m) =>
              /\ last'.op \in {"enter_decode_phase", "enter_prefill_phase"}
              /\ last'.mgr = m]_vars

\* C14 amended: the phase of a manager changes only in a step of
\* enter_decode_phase (to Decode), of enter_prefill_phase (to Prefill) or of a
\* record_tbt that took the rollback branch (to Prefill), on that manager; no
\* other operation changes it.
C14_PhaseChangesOnlyByPhaseCallsOrRollback ==
    [][\A m \in ManagerIds :
          PhaseChanged(m) =>
              /\ last'.mgr = m
              /\ ~last'.raised
              /\ \/ last'.op = "enter_decode_phase" /\ mgrs'[m].in_decode_phase
                 \/ last'.op = "enter_prefill_phase" /\ ~mgrs'[m].in_decode_phase
                 \/ /\ last'.op = "record_tbt"
                    /\ last'.rollback
                    /\ ~mgrs'[m].in_decode_phase]_vars

\* C14 witness: a record_tbt call, the third sample of a manager in Decode,
\* has moved the phase to Prefill
C14_Witness ==
    /\ last.op = "record_tbt"
    /\ OnActive(last.mgr)
    /\ Len(recorded) = MinSamples
    /\ last.was
    /\ mgrs[last.mgr].life = "live"
    /\ ~mgrs[last.mgr].in_decode_phase

\* thread t is inside the with block of record_tbt (lines 177-192)
InCritical(t) ==
    threads[t].pc \in {"append", "evict", "check", "reset", "write", "release"}

\* the number of samples given to record_tbt calls that have not appended yet
Pending == Cardinality({t \in LatThreads : threads[t].pc \in {"acquire", "append"}})

\* what holds in every state of the threaded runs: the thread inside the with
\* block holds the lock; no sample is stored twice; the sample of a call that
\* has appended is stored and the sample of a call that has not is not; the
\* window is the last 10 samples stored, except between the append and the
\* eviction of the lock holder, where it is the last 11
WindowGuarded ==
    /\ \A t \in LatThreads : InCritical(t) <=> tbt_lock = t
    /\ \A i, j \in 1 .. Len(recorded) : recorded[i] = recorded[j] => i = j
    /\ \A t \in LatThreads :
          /\ threads[t].pc \in {"evict", "check", "reset", "write", "release"}
                => \E i \in 1 .. Len(recorded) : recorded[i] = threads[t].tbt
          /\ threads[t].pc \in {"acquire", "append"}
                => \A i \in 1 .. Len(recorded) : recorded[i] # threads[t].tbt
    /\ IF \E t \in LatThreads : threads[t].pc = "evict"
       THEN tbt_values = LastN(recorded, WindowCapacity + 1)
       ELSE /\ Len(tbt_values) <= WindowCapacity
            /\ tbt_values = LastN(recorded, WindowCapacity)

\* what holds of every step of the threaded runs: a sample handed to
\* record_tbt is pending or stored from then on, and only the holder of the
\* lock changes the window
WindowStep ==
    /\ Len(recorded') + Pending' + Len(script')
          = Len(recorded) + Pending + Len(script)
    /\ tbt_values' # tbt_values =>
          \E t \in LatThreads :
              /\ tbt_lock = t
              /\ threads[t].pc \in {"append", "evict"}
              /\ threads'[t] # threads[t]
              /\ \A u \in LatThreads \ {t} : threads'[u] = threads[u]

RollbackDone ==
    /\ last.op = "record_tbt"
    /\ last.rollback
    /\ ~last.raised
    /\ OnActive(last.mgr)

\* C16: a rollback issues the reset call of every device and leaves the phase
\* Prefill, as enter_prefill_phase does in Decode; an enter_prefill_phase
\* directly after it issues no NVML call, and an enter_decode_phase directly
\* after it issues the set-locked-clocks call of every device again and sets
\* the phase to Decode.  Stated of the rollbacks that ran to their end and of
\* the enter_decode_phase calls in which every handle resolves.
C16_RollbackIsEnterPrefill ==
    [][RollbackDone =>
          /\ AllReset(last.mgr)
          /\ ~mgrs[last.mgr].in_decode_phase
          /\ (last'.op = "enter_prefill_phase" /\ last'.mgr = last.mgr)
                => (calls' = <<>> /\ mgrs' = mgrs)
          /\ (last'.op = "enter_decode_phase" /\ last'.mgr = last.mgr
              /\ HandlesResolved')
                => /\ \A d \in device_ids : CallIdx("SetLocked", last.mgr, d)' # {}
                   /\ mgrs'[last.mgr].in_decode_phase]_vars

\* What holds after every rollback that ran to its end: the calls it issued
\* are a run of reset_clocks and the phase is Prefill, as after
\* enter_prefill_phase; an enter_prefill_phase directly after it does nothing,
\* and an enter_decode_phase directly after it runs its device loop again and,
\* when it returns, sets the phase to Decode.
RollbackLeavesPrefill ==
    [][RollbackDone =>
          /\ calls \in {r.calls : r \in ResetRuns(last.mgr)}
          /\ AllReset(last.mgr)
          /\ ~mgrs[last.mgr].in_decode_phase
          /\ (last'.op = "enter_prefill_phase" /\ last'.mgr = last.mgr)
                => (calls' = <<>> /\ mgrs' = mgrs)
          /\ (last'.op = "enter_decode_phase" /\ last'.mgr = last.mgr)
                => /\ calls' # <<>>
                   /\ mgrs'[last.mgr].in_decode_phase = ~last'.raised]_vars

\* no operation is in progress: every thread is outside the methods
Quiescent == \A t \in Threads : threads[t].pc = "idle"

\* C17: with the control loop and the latency reporters on different threads,
\* whenever no operation is in progress the phase is Decode exactly when the
\* latest clock action of every device was the apply step of
\* enter_decode_phase and not a reset.
C17_PhaseMatchesClocks ==
    Quiescent =>
        (mgrs[power_manager].in_decode_phase
            <=> \A d \in device_ids : clock_log[d] = "apply")

\* What holds in the threaded runs: phase and clocks agree when no operation
\* is in progress as long as no rollback can have overlapped an
\* enter_prefill_phase followed by an enter_decode_phase (the control loop has
\* made at most one phase call).
PhaseMatchesClocksUntilOverlap ==
    (Quiescent /\ ctlLeft >= MaxCtlCalls - 1) =>
        (mgrs[power_manager].in_decode_phase
            <=> \A d \in device_ids : clock_log[d] = "apply")

\* C18: on an active manager with monitoring on, when 10 record_tbt calls in a
\* row have each stored a sample above the threshold with the phase Decode at
\* their entry and nothing called in between, the rollback has fired and the
\* phase is Prefill after the 10th, whatever the window held before.
C18_DetectionWithinTenSamples ==
    (last.op = "record_tbt" /\ OnActive(last.mgr)
     /\ last.streak >= WindowCapacity) =>
        /\ last.rollback
        /\ AllReset(last.mgr)
        /\ ~mgrs[last.mgr].in_decode_phase

\* What holds of record_tbt in every run: the 10th slow sample in a row fills
\* the window with samples above the threshold, so the rollback branch is
\* taken at that call at the latest, and the phase is Prefill when
\* reset_clocks returns.
RollbackAttemptedWithinTenSamples ==
    (last.op = "record_tbt" /\ OnActive(last.mgr)
     /\ last.streak >= WindowCapacity) =>
        /\ last.rollback
        /\ Len(tbt_values) = WindowCapacity
        /\ \A i \in 1 .. Len(tbt_values) :
              tbt_values[i] > mgrs[last.mgr].threshold
        /\ ~last.raised => AllReset(last.mgr) /\ ~mgrs[last.mgr].in_decode_phase

\* a run in which the rollback fires exactly at the 10th slow sample: the
\* window held ten fast samples before, and the rollback went through
SlowBurstDetected ==
    /\ last.op = "record_tbt"
    /\ last.streak = WindowCapacity
    /\ recorded = SlowBurst
    /\ last.rollback
    /\ ~last.raised
    /\ ~mgrs[last.mgr].in_decode_phase

\* C19: enter_decode_phase, enter_prefill_phase, reset_clocks and the rollback
\* leave the latency window as it is: a phase call changes nothing of it, and
\* a record_tbt call that stores its sample leaves the window with the sample
\* appended and at most the oldest one evicted, whether or not it rolled
\* back; so samples stored before a rollback or in Prefill still count after
\* a later enter_decode_phase.
C19_WindowOnlyChangedByRecord ==
    [][/\ last'.op \in {"enter_decode_phase", "enter_prefill_phase"}
          => (tbt_values' = tbt_values /\ recorded' = recorded)
       /\ last'.op = "record_tbt"
          => \/ tbt_values' = tbt_values /\ recorded' = recorded
             \/ /\ OnActive(last'.mgr)
                /\ recorded' = Append(recorded, last'.tbt)
                /\ tbt_values' = LastN(Append(tbt_values, last'.tbt),
                                       WindowCapacity)]_vars

\* C19 witness: a sample below the threshold was stored in Decode and the
\* rollback fired all the same, because the three slow samples stored before
\* the phase was last entered are still in the window
C19_Witness ==
    /\ last.op = "record_tbt"
    /\ OnActive(last.mgr)
    /\ last.was
    /\ last.rollback
    /\ last.tbt < mgrs[last.mgr].threshold
    /\ last.streak = 0
    /\ tbt_values = <<150, 150, 150, 50>>

\* the most recent operation ran on an active manager built with
\* monitor_tbt=false
OnUnmonitored ==
    OnActive(last.mgr) /\ ~mgrs[last.mgr].monitor_tbt /\ mgrs[last.mgr].life = "live"

\* C20: on an active manager built with monitor_tbt=false record_tbt stores
\* no sample, leaves the phase alone and issues no NVML call, for every sample
\* and in either phase, while enter_decode_phase and enter_prefill_phase still
\* move the phase to Decode and to Prefill.
C20_UnmonitoredRecordIsNoOp ==
    OnUnmonitored =>
        /\ last.op = "record_tbt" =>
              /\ calls = <<>>
              /\ mgrs[last.mgr].in_decode_phase = last.was
              /\ ~last.rollback
        /\ power_manager = last.mgr => tbt_values = <<>> /\ recorded = <<>>
        /\ (last.op = "enter_decode_phase" /\ ~last.was)
              => mgrs[last.mgr].in_decode_phase
        /\ (last.op = "enter_prefill_phase" /\ last.was)
              => ~mgrs[last.mgr].in_decode_phase

\* What holds on such a manager in every run: record_tbt is a no-op, the
\* window stays empty, and the phase calls run their device loops and move
\* the phase whenever they return.
UnmonitoredOnlyRecordIsOff ==
    OnUnmonitored =>
        /\ last.op = "record_tbt" =>
              /\ calls = <<>>
              /\ mgrs[last.mgr].in_decode_phase = last.was
              /\ ~last.rollback
        /\ power_manager = last.mgr => tbt_values = <<>> /\ recorded = <<>>
        /\ (last.op = "enter_decode_phase" /\ ~last.was)
              => /\ calls # <<>>
                 /\ mgrs[last.mgr].in_decode_phase = ~last.raised
        /\ (last.op = "enter_prefill_phase" /\ last.was)
              => /\ calls # <<>>
                 /\ mgrs[last.mgr].in_decode_phase = last.raised

\* a run in which the third slow sample in Decode was given to such a manager
\* and nothing happened
UnmonitoredSlowSamplesIgnored ==
    /\ OnUnmonitored
    /\ last.op = "record_tbt"
    /\ last.was
    /\ last.tbt = 170
    /\ Len(script) = MaxRecords - 6
    /\ mgrs[last.mgr].in_decode_phase

====
